---- MODULE Spec2Model ----
(***************************************************************************)
(* Concurrent collection orchestrator of managed_etf (src/driver.py) with  *)
(* the Yahoo Finance adapter it calls (src/data_collection.py).            *)
(*                                                                         *)
(* main() submits one collect_data_for_ticker task per entry of the ticker *)
(* universe to a ThreadPoolExecutor, iterates the futures as they          *)
(* complete, leaves the pool (join) and then writes failed_tickers.txt.    *)
(* Every task fetches, writes {ticker}_yahoo_finance.csv in place with     *)
(* DataFrame.to_csv, returns True/False and sleeps in its finally clause.  *)
(***************************************************************************)
EXTENDS Integers, Sequences, FiniteSets, TLC

\* ---------------------------------------------------------------- bounds
MaxTickers == 2      \* longest ticker universe explored
MaxWorkers == 2      \* largest --max_workers explored
NumChunks  == 2      \* buffer flushes one to_csv call needs for a file

\* ------------------------------------------------------------- vocabulary
Tickers == {"AAPL", "BADTICKER"}

\* what yf.download does for a ticker (deterministic provider stub):
\* rows with the expected columns, an empty frame, rows with columns
\* missing, or an exception (transport / HTTP failure)
ProviderBehaviours == {"rows", "empty", "badcols", "raise"}

\* what the file system does for to_csv on a ticker's path
DiskBehaviours == {"ok", "fail"}

RECURSIVE SeqsUpTo(_)
SeqsUpTo(n) ==
    IF n = 0 THEN {<<>>}
    ELSE LET shorter == SeqsUpTo(n - 1)
         IN  shorter \cup {Append(s, t) : s \in {x \in shorter : Len(x) = n - 1}, t \in Tickers}

Range(s) == {s[k] : k \in DOMAIN s}

\* ------------------------------------------------------------------ files
ChunkPos == 1..NumChunks
Blank    == [k \in ChunkPos |-> 0]
Absent   == [kind |-> "absent", chunks |-> Blank]   \* no file at the path
Old      == [kind |-> "old",    chunks |-> Blank]   \* complete file of an earlier run
Opened   == [kind |-> "new",    chunks |-> Blank]   \* open(path, "w"): truncated
NoManifest == [exists |-> FALSE, lines |-> <<>>]

VARIABLES
    tickers,          \* SP500_TICKERS: the ordered universe
    max_workers,      \* args.max_workers
    adapter,          \* ticker -> behaviour of yf.download
    disk,             \* ticker -> behaviour of to_csv on the ticker's path
    files,            \* ticker -> content of collected_data/{ticker}_yahoo_finance.csv
    manifest,         \* collected_data/failed_tickers.txt as written by this run
    pc_main,          \* position of main()
    submitted,        \* number of executor.submit calls made so far
    pc,               \* task -> position of collect_data_for_ticker
    yahoo_finance_df, \* task -> local variable of collect_data_for_ticker
    offset,           \* task -> chunks flushed so far by the task's to_csv
    future,           \* task -> state of the task's Future
    collected,        \* task -> times as_completed handed the future to main
    failed_tickers,   \* local list of main()
    killed            \* the process was killed

vars == <<tickers, max_workers, adapter, disk, files, manifest, pc_main, submitted,
          pc, yahoo_finance_df, offset, future, collected, failed_tickers, killed>>

inputs == <<tickers, max_workers, adapter, disk>>

Tasks == 1..Len(tickers)

RunningPcs == {"fetch", "open", "writing", "sleep"}
Running(i)    == pc[i] \in RunningPcs
Busy          == Cardinality({i \in Tasks : Running(i)})
FutureDone(i) == pc[i] = "finished"

\* ---------------------------------------------------------------- adapter
\* data_collection.get_yahoo_finance_data: a frame, or None for an empty
\* result, for missing columns (ValueError caught) and for any exception
get_yahoo_finance_data_nocheck(behaviour) ==
    IF behaviour \in {"rows", "badcols"} THEN "df" ELSE "None"

get_yahoo_finance_data_noempty(behaviour) ==
    IF behaviour \in {"rows", "empty"} THEN "df" ELSE "None"

get_yahoo_finance_data(behaviour) ==
    IF behaviour = "rows" THEN "df" ELSE "None"

\* ------------------------------------------------- collect_data_for_ticker
SuccessReturn == "True"     \* return True after to_csv
NoDataReturn  == "False"    \* return False when the adapter gave None

ExceptReturn_Propagate == "exc"

ExceptReturn == "False"     \* except Exception: return False

\* ------------------------------------------------------------------- pool
\* a work item is taken from the executor's FIFO queue by a free worker
CanStart_OffByOne(i) ==
    /\ pc[i] = "pending"
    /\ i <= submitted
    /\ \A j \in 1..(i - 1) : pc[j] # "pending"
    /\ Busy <= max_workers

CanStart_Retry(i) ==
    /\ pc[i] = "pending" \/ (pc[i] = "finished" /\ future[i] = "False" /\ collected[i] = 0)
    /\ i <= submitted
    /\ \A j \in 1..(i - 1) : pc[j] # "pending"
    /\ Busy < max_workers

CanStart(i) ==
    /\ pc[i] = "pending"
    /\ i <= submitted
    /\ \A j \in 1..(i - 1) : pc[j] # "pending"
    /\ Busy < max_workers

\* as_completed hands each finished future to the loop once
Yieldable(i) == FutureDone(i) /\ collected[i] = 0

\* the for loop over as_completed ends when every future was handed over
LoopExhausted_PerWorker ==
    Cardinality({i \in Tasks : collected[i] > 0}) >= max_workers

LoopExhausted_FailFast ==
    \/ \A i \in Tasks : collected[i] > 0
    \/ \E i \in Tasks : collected[i] > 0 /\ future[i] # "True"

LoopExhausted == \A i \in Tasks : collected[i] > 0

\* leaving the with block: loop over, and shutdown(wait=True) has joined
PoolJoined_First == \E i \in Tasks : collected[i] > 0

PoolJoined_NoneFailed ==
    /\ \A i \in Tasks : collected[i] > 0 /\ FutureDone(i)
    /\ \E i \in Tasks : future[i] = "True"

PoolJoined == LoopExhausted /\ \A i \in Tasks : FutureDone(i)

\* ------------------------------------------------------------------- Init
Init ==
    /\ tickers \in SeqsUpTo(MaxTickers)
    /\ max_workers \in 1..MaxWorkers
    /\ adapter \in [Tickers -> ProviderBehaviours]
    /\ disk \in [Tickers -> DiskBehaviours]
    \* to_csv is reached only for a ticker whose fetch gives a frame
    /\ \A t \in Tickers : adapter[t] # "rows" => disk[t] = "ok"
    /\ files \in [Tickers -> {Absent, Old}]
    /\ manifest = NoManifest
    /\ pc_main = "start"
    /\ submitted = 0
    /\ pc = [i \in Tasks |-> "pending"]
    /\ yahoo_finance_df = [i \in Tasks |-> "unset"]
    /\ offset = [i \in Tasks |-> 0]
    /\ future = [i \in Tasks |-> "none"]
    /\ collected = [i \in Tasks |-> 0]
    /\ failed_tickers = <<>>
    /\ killed = FALSE

\* ------------------------------------------------------------------ tasks
\* a worker thread dequeues the work item and enters collect_data_for_ticker
Start(i) ==
    /\ ~killed
    /\ CanStart(i)
    /\ pc' = [pc EXCEPT ![i] = "fetch"]
    /\ UNCHANGED <<inputs, files, manifest, pc_main, submitted, yahoo_finance_df,
                   offset, future, collected, failed_tickers, killed>>

\* yahoo_finance_df = dc.get_yahoo_finance_data(...); the None branch returns
Fetch(i) ==
    /\ ~killed
    /\ pc[i] = "fetch"
    /\ LET got == get_yahoo_finance_data(adapter[tickers[i]])
       IN  /\ yahoo_finance_df' = [yahoo_finance_df EXCEPT ![i] = got]
           /\ IF got # "None"
              THEN /\ pc' = [pc EXCEPT ![i] = "open"]
                   /\ UNCHANGED future
              ELSE /\ pc' = [pc EXCEPT ![i] = "sleep"]
                   /\ future' = [future EXCEPT ![i] = NoDataReturn]
    /\ UNCHANGED <<inputs, files, manifest, pc_main, submitted, offset,
                   collected, failed_tickers, killed>>

\* to_csv opens the destination path for writing: the file is truncated
Open(i) ==
    /\ ~killed
    /\ pc[i] = "open"
    /\ files' = [files EXCEPT ![tickers[i]] = Opened]
    /\ pc' = [pc EXCEPT ![i] = "writing"]
    /\ UNCHANGED <<inputs, manifest, pc_main, submitted, yahoo_finance_df, offset,
                   future, collected, failed_tickers, killed>>

\* to_csv flushes its next chunk at the task's own file offset
WriteChunk(i) ==
    /\ ~killed
    /\ pc[i] = "writing"
    /\ offset[i] < NumChunks
    /\ disk[tickers[i]] = "ok" \/ offset[i] + 1 < NumChunks
    /\ LET t == tickers[i]
           k == offset[i] + 1
       IN  files' = [files EXCEPT ![t] =
                        [kind |-> "new", chunks |-> [files[t].chunks EXCEPT ![k] = i]]]
    /\ offset' = [offset EXCEPT ![i] = offset[i] + 1]
    /\ UNCHANGED <<inputs, manifest, pc_main, submitted, pc, yahoo_finance_df,
                   future, collected, failed_tickers, killed>>

\* to_csv raises (open or a flush failed); the except clause returns
WriteFail(i) ==
    /\ ~killed
    /\ pc[i] \in {"open", "writing"}
    /\ disk[tickers[i]] = "fail"
    /\ pc' = [pc EXCEPT ![i] = "sleep"]
    /\ future' = [future EXCEPT ![i] = ExceptReturn]
    /\ UNCHANGED <<inputs, files, manifest, pc_main, submitted, yahoo_finance_df,
                   offset, collected, failed_tickers, killed>>

\* to_csv closes the file and the task returns True
WriteDone(i) ==
    /\ ~killed
    /\ pc[i] = "writing"
    /\ offset[i] = NumChunks
    /\ pc' = [pc EXCEPT ![i] = "sleep"]
    /\ future' = [future EXCEPT ![i] = SuccessReturn]
    /\ UNCHANGED <<inputs, files, manifest, pc_main, submitted, yahoo_finance_df,
                   offset, collected, failed_tickers, killed>>

\* finally: time.sleep(...) is over; the worker sets the future and is free
Finish(i) ==
    /\ ~killed
    /\ pc[i] = "sleep"
    /\ pc' = [pc EXCEPT ![i] = "finished"]
    /\ UNCHANGED <<inputs, files, manifest, pc_main, submitted, yahoo_finance_df,
                   offset, future, collected, failed_tickers, killed>>

\* ------------------------------------------------------------------- main
\* tickers = SP500_TICKERS; if not tickers: return
Begin ==
    /\ ~killed
    /\ pc_main = "start"
    /\ pc_main' = IF tickers = <<>> THEN "done" ELSE "submit"
    /\ UNCHANGED <<inputs, files, manifest, submitted, pc, yahoo_finance_df, offset,
                   future, collected, failed_tickers, killed>>

\* one executor.submit of the dict comprehension
Submit ==
    /\ ~killed
    /\ pc_main = "submit"
    /\ submitted' = submitted + 1
    /\ pc_main' = IF submitted + 1 = Len(tickers) THEN "collect" ELSE "submit"
    /\ UNCHANGED <<inputs, files, manifest, pc, yahoo_finance_df, offset, future,
                   collected, failed_tickers, killed>>

\* one iteration of the as_completed loop: future.result(), and the except
\* clause appends the ticker when the future holds an exception
Collect(i) ==
    /\ ~killed
    /\ pc_main = "collect"
    /\ ~LoopExhausted
    /\ Yieldable(i)
    /\ collected' = [collected EXCEPT ![i] = collected[i] + 1]
    /\ failed_tickers' = IF future[i] = "exc"
                         THEN Append(failed_tickers, tickers[i])
                         ELSE failed_tickers
    /\ UNCHANGED <<inputs, files, manifest, pc_main, submitted, pc, yahoo_finance_df,
                   offset, future, killed>>

\* the with block is left
ExitPool ==
    /\ ~killed
    /\ pc_main = "collect"
    /\ PoolJoined
    /\ pc_main' = "manifest"
    /\ UNCHANGED <<inputs, files, manifest, submitted, pc, yahoo_finance_df, offset,
                   future, collected, failed_tickers, killed>>

\* if failed_tickers: write failed_tickers.txt; "Data collection complete!"
WriteManifest ==
    /\ ~killed
    /\ pc_main = "manifest"
    /\ manifest' = IF failed_tickers # <<>>
                   THEN [exists |-> TRUE, lines |-> failed_tickers]
                   ELSE manifest
    /\ pc_main' = "done"
    /\ UNCHANGED <<inputs, files, submitted, pc, yahoo_finance_df, offset, future,
                   collected, failed_tickers, killed>>

\* the process is killed from outside while the run is under way
Kill ==
    /\ ~killed
    /\ pc_main # "done"
    /\ killed' = TRUE
    /\ UNCHANGED <<inputs, files, manifest, pc_main, submitted, pc, yahoo_finance_df,
                   offset, future, collected, failed_tickers>>

Next ==
    \/ Begin
    \/ Submit
    \/ \E i \in Tasks : Start(i)
    \/ \E i \in Tasks : Fetch(i)
    \/ \E i \in Tasks : Open(i)
    \/ \E i \in Tasks : WriteChunk(i)
    \/ \E i \in Tasks : WriteFail(i)
    \/ \E i \in Tasks : WriteDone(i)
    \/ \E i \in Tasks : Finish(i)
    \/ \E i \in Tasks : Collect(i)
    \/ ExitPool
    \/ WriteManifest
    \/ Kill

Spec == Init /\ [][Next]_vars

\* a step of the program itself (everything but the kill from outside)
Progress ==
    \/ Begin
    \/ Submit
    \/ \E i \in Tasks : Start(i) \/ Fetch(i) \/ Open(i) \/ WriteChunk(i)
    \/ \E i \in Tasks : WriteFail(i) \/ WriteDone(i) \/ Finish(i) \/ Collect(i)
    \/ ExitPool
    \/ WriteManifest

\* every call of the provider and of to_csv returns or fails, and the
\* threads of the process are scheduled: the program keeps taking steps
\* while it has one to take. The runs are those in which the process is not
\* killed, explored from an empty collected_data directory (no guard reads
\* a CSV).
LiveInit == Init /\ \A t \in Tickers : files[t] = Absent

LiveSpec == LiveInit /\ [][Progress]_vars /\ WF_vars(Progress)

\* ============================================================ properties
\* main has left the with block (the pool has drained)
Drained == pc_main \in {"manifest", "done"}

\* the task has left its try block: its return value is determined
Terminal(i) == pc[i] \in {"sleep", "finished"}

\* outcome kind the deterministic stubs prescribe for the task's ticker,
\* a function of the ticker alone
Expected(i) ==
    IF adapter[tickers[i]] = "rows" /\ disk[tickers[i]] = "ok" THEN "True" ELSE "False"

\* an exception is raised inside the task: by the provider call, by the
\* column check, or by to_csv
Raised(i) ==
    \/ adapter[tickers[i]] \in {"raise", "badcols"}
    \/ adapter[tickers[i]] = "rows" /\ disk[tickers[i]] = "fail"

Failed(i) == FutureDone(i) /\ future[i] = "False"

\* the file is no file, the complete file of an earlier run, or the
\* complete output of one to_csv call
WrittenBy(f, w) == f.kind = "new" /\ \A k \in ChunkPos : f.chunks[k] = w
Complete(f) == f.kind \in {"absent", "old"} \/ \E w \in Tasks : WrittenBy(f, w)

\* C1: once the pool has drained, every submitted task's future has been
\* handed to main exactly once (|U| outcomes, none lost, none duplicated)
\* and each outcome kind is the one the stubs prescribe for the ticker,
\* whatever the worker count and the completion order were.
C1_OutcomesIndependentOfSchedule ==
    Drained =>
        /\ Cardinality({i \in Tasks : collected[i] > 0}) = Len(tickers)
        /\ \A i \in Tasks :
              /\ collected[i] = 1
              /\ FutureDone(i)
              /\ future[i] = Expected(i)

C1_Witness ==
    /\ pc_main = "done"
    /\ Len(tickers) >= 2
    /\ tickers[1] = tickers[2]
    /\ max_workers >= 2
    /\ \A i \in Tasks : future[i] = "True"

\* C2: after normal completion failed_tickers.txt exists if and only if
\* some task ended Failed, and it lists exactly the tickers of the Failed
\* tasks.
C2_ManifestIffFailed ==
    pc_main = "done" =>
        /\ manifest.exists <=> (\E i \in Tasks : Failed(i))
        /\ Range(manifest.lines) = {tickers[i] : i \in {j \in Tasks : Failed(j)}}

\* C3: once a task has raised, no sibling's outcome is lost, duplicated or
\* changed, and the pool is not aborted: the run can always take a further
\* step until main is done, and when the pool has drained every sibling is
\* terminal and was handed to main exactly once with its own outcome.
C3_FailureIsolation ==
    \A i \in Tasks :
        (Raised(i) /\ Terminal(i)) =>
            /\ \A j \in Tasks \ {i} : future[j] \in {"none", Expected(j)}
            /\ \A j \in Tasks \ {i} : collected[j] <= 1
            /\ (~killed /\ pc_main # "done") => ENABLED Progress
            /\ Drained => \A j \in Tasks \ {i} :
                             FutureDone(j) /\ collected[j] = 1 /\ future[j] = Expected(j)

C3_Witness ==
    /\ pc_main = "done"
    /\ Len(tickers) >= 2
    /\ max_workers >= 2
    /\ Raised(1) /\ Failed(1)
    /\ future[2] = "True" /\ collected[2] = 1

\* C4: for any two Failed tasks, the ticker of the one earlier in the
\* universe is written to the manifest before the ticker of the later one.
C4_ManifestInUniverseOrder ==
    pc_main = "done" =>
        \A i, j \in Tasks :
            (i < j /\ Failed(i) /\ Failed(j)) =>
                \E p, q \in DOMAIN manifest.lines :
                    p < q /\ manifest.lines[p] = tickers[i] /\ manifest.lines[q] = tickers[j]

\* C5: when the process is killed, every ticker's CSV is absent, the prior
\* complete file, or a new complete file.
C5_AtomicWrites ==
    killed => \A t \in Tickers : Complete(files[t])

\* C6: a task in which the provider call, the column check or to_csv raised
\* ends with the outcome Failed (never Persisted, never an escaped
\* exception, never nothing), and that outcome is handed to main once.
C6_FailuresBecomeFailed ==
    \A i \in Tasks :
        Raised(i) =>
            /\ Terminal(i) => future[i] = "False"
            /\ Drained => Failed(i) /\ collected[i] = 1

C6_Witness ==
    /\ Drained
    /\ \E i, j \in Tasks :
          /\ adapter[tickers[i]] = "raise" /\ Failed(i)
          /\ disk[tickers[j]] = "fail" /\ Failed(j) /\ files[tickers[j]].kind = "new"

\* C7: main reads failed_tickers and writes the manifest only after every
\* submitted task is terminal, and the manifest is written by the last step
\* of main only (at most once).
C7_JoinBarrier ==
    /\ (Drained \/ manifest.exists) => \A i \in Tasks : FutureDone(i)
    /\ manifest.exists => pc_main = "done"

C7_Witness ==
    /\ pc_main = "manifest"
    /\ Len(tickers) >= 2
    /\ max_workers = 1
    /\ \A i \in Tasks : FutureDone(i)

\* C8: at most max_workers tasks are running (sleeping after the task
\* included) at any time.
C8_BoundedWorkers == Busy <= max_workers

C8_Witness ==
    /\ Busy = max_workers
    /\ \E i \in Tasks : pc[i] = "pending" /\ i <= submitted
    /\ \E i \in Tasks : pc[i] = "sleep"

\* C9 as stated: two finished tasks that failed for different reasons
\* (empty result, provider failure, missing columns) have recorded outcomes
\* that tell the reasons apart.
FailureReason(i) ==
    CASE adapter[tickers[i]] = "empty"   -> "NoData"
      [] adapter[tickers[i]] = "raise"   -> "ProviderError"
      [] adapter[tickers[i]] = "badcols" -> "SchemaMismatch"
      [] OTHER                           -> "none"

C10_DuplicatesWhole ==
    pc_main = "done" =>
        \A i, j \in Tasks :
            (i < j /\ tickers[i] = tickers[j]) =>
                /\ FutureDone(i) /\ FutureDone(j)
                /\ collected[i] = 1 /\ collected[j] = 1
                /\ (future[i] = "True" /\ future[j] = "True") =>
                       WrittenBy(files[tickers[i]], i) \/ WrittenBy(files[tickers[i]], j)

C12_TaskLifecycle ==
    [][\A i \in Tasks :
          /\ pc[i] = "pending" => pc'[i] \in {"pending", "fetch"}
          /\ Running(i) => pc'[i] \in RunningPcs \cup {"finished"}
          /\ pc[i] = "finished" => pc'[i] = "finished"
          /\ pc'[i] = "fetch" => pc[i] \in {"pending", "fetch"}
          /\ future[i] # "none" => future'[i] = future[i]
          /\ pc'[i] = "finished" => future'[i] \in {"True", "False"}
          /\ collected'[i] \in {collected[i], collected[i] + 1}
          /\ collected'[i] <= 1
          /\ collected'[i] > 0 => pc[i] = "finished"]_vars

C12_Witness ==
    /\ pc_main = "done"
    /\ Len(tickers) >= 2
    /\ max_workers = 1
    /\ Failed(1)
    /\ FutureDone(2) /\ future[2] = "True"
    /\ \A i \in Tasks : collected[i] = 1

\* a step of task i (every task action moves pc or offset of its task)
TaskStep(i) == pc'[i] # pc[i] \/ offset'[i] # offset[i]

\* C13: no step of a task whose fetch yields no data (empty result,
\* provider error or missing columns) changes any file: its own ticker's
\* CSV and every other ticker's CSV stay exactly as they were.
C13_NoDataNoWrite ==
    [][\A i \in Tasks :
          (adapter[tickers[i]] # "rows" /\ TaskStep(i)) => files' = files]_vars

C13_Witness ==
    \E i, j \in Tasks :
        /\ adapter[tickers[i]] = "empty" /\ Failed(i)
        /\ files[tickers[i]] = Old
        /\ future[j] = "True" /\ WrittenBy(files[tickers[j]], j)

====
